---- MODULE Spec2Model ----
(***************************************************************************)
(* Model of advanced-vector/vector.h: RawMemory<T> (a block of raw memory  *)
(* for capacity elements) and Vector<T> (the block plus the number of live *)
(* elements).  A block is a sequence of slots, one per element of          *)
(* capacity; a slot is Raw (no object) or holds the value of a live        *)
(* element.  Every operation of Vector is one action; an operation that    *)
(* can throw takes the ordinal f of the fallible step that throws (0: none)*)
(* and an operation whose behaviour is undefined takes the outcome.        *)
(***************************************************************************)
EXTENDS Integers, Sequences, FiniteSets, TLC

\* ---------------------------------------------------------------- bounds
MaxCap == 4
MaxSize == 3
MaxVal == 2
MaxOther == 2
MaxPushCap == 8
MaxPush == 5
MaxAddr == 3
MaxRawCap == 2

\* ------------------------------------------------------- element type T
\* A slot of raw memory that holds no object.
Raw == -1
\* The value of a value-initialized element, and of a moved-from element of
\* a type whose move changes its source.
Default == 0

Values == 1..MaxVal
Garbage == 0..MaxVal

\* Int: trivially copyable.  Str: noexcept move, throwing copy (std::string).
\* Thr: copyable, every operation may throw.  Mov: move-only, throwing move.
Types == {"Int", "Str", "Thr", "Mov"}

IsNothrowMoveConstructible(t) == t \in {"Int", "Str"}
IsCopyConstructible(t) == t # "Mov"
CtorThrows(t) == t # "Int"
CopyThrows(t) == t \in {"Str", "Thr"}
MoveThrows(t) == t \in {"Thr", "Mov"}
CopyAssignThrows(t) == t \in {"Str", "Thr"}
MoveAssignThrows(t) == t \in {"Thr", "Mov"}

\* The state std::move leaves its source in.
MovedFrom(t, x) == IF t = "Int" THEN x ELSE Default

\* Mutant of UseMove: a type that cannot be copied is not considered.
UseMoveMut(t) == IsNothrowMoveConstructible(t)

\* if constexpr (is_nothrow_move_constructible_v<T> || !is_copy_constructible_v<T>)
UseMove(t) == IsNothrowMoveConstructible(t) \/ ~IsCopyConstructible(t)
RelocThrows(t) == IF UseMove(t) THEN MoveThrows(t) ELSE CopyThrows(t)
RelocFail(t) == IF UseMove(t) THEN "move" ELSE "copy"

\* ------------------------------------------------------------ variables
VARIABLES
    T,        \* the element type of the Vector
    alive,    \* the Vector object exists
    data_,    \* Vector::data_: the block, Len(data_) = data_.Capacity()
    size_,    \* Vector::size_
    other,    \* the second Vector of a two-Vector operation, until it is destroyed
    last,     \* what the last operation was, was given, returned and did
    hist,     \* of a run of pushes and pops from an empty Vector: what should be in it
    raw,      \* two RawMemory objects, "a" and "b"
    heap,     \* operator new's blocks: address -> "free", "used" or "twice"
    rlast     \* the last RawMemory operation

vars == <<T, alive, data_, size_, other, last, hist, raw, heap, rlast>>
vecVars == <<T, alive, data_, size_, other, last>>
rawVars == <<raw, heap, rlast>>

\* ----------------------------------------------------------------- blocks
RawBlock(n) == [k \in 1..n |-> Raw]
NumLive(d) == Cardinality({k \in 1..Len(d) : d[k] # Raw})
Capacity == Len(data_)
Min(a, b) == IF a < b THEN a ELSE b
Max(a, b) == IF a < b THEN b ELSE a

NoVec == [exists |-> FALSE, data |-> <<>>, size |-> 0]
NoHist == [on |-> FALSE, popped |-> FALSE, pushed |-> <<>>, caps |-> <<>>]
NoRaw == [alive |-> FALSE, buffer |-> 0, capacity |-> 0]

\* The result of an operation's body: the block and size it leaves, how it
\* ended ("ok", "throw", "crash"), which kind of step threw, the position it
\* returns, the number of element destructors it ran, the number of live
\* elements whose storage it released or overwrote without destroying them,
\* and whether it indexed the block outside [0, capacity).  Further: the
\* number of elements it constructed in a block of the Vector, the numbers
\* of elements it relocated to a fresh block by move and by copy
\* construction, and whether the Vector's block is another one than before.
Res(d, s, out, fail, ret, destroyed, leaked, oob) ==
    [data |-> d, size |-> s, out |-> out, fail |-> fail, ret |-> ret,
     destroyed |-> destroyed, leaked |-> leaked, oob |-> oob, valid |-> TRUE,
     constructed |-> 0, moved |-> 0, copied |-> 0, newblock |-> FALSE]
Invalid == [valid |-> FALSE]

\* r, having constructed n elements in a block of the Vector.
Constructed(r, n) == [r EXCEPT !.constructed = n]

\* r, having relocated n elements to a fresh block: uninitialized_move_n or
\* uninitialized_copy_n, as the if constexpr selects.
Relocating(r, t, n) ==
    [r EXCEPT !.moved = IF UseMove(t) THEN n ELSE 0,
              !.copied = IF UseMove(t) THEN 0 ELSE n]

\* r, with data_.Swap(new_data) done: the Vector has the fresh block.
Swapped(r) == [r EXCEPT !.newblock = TRUE]

\* The record of a call: the operation, its arguments (an index or count, a
\* value, another Vector), the Vector before the call, and what the body did.
Call(op, idx, val, arg, d, s, r) ==
    [op |-> op, idx |-> idx, val |-> val, arg |-> arg, pre |-> [data |-> d, size |-> s],
     out |-> r.out, fail |-> r.fail, ret |-> r.ret, destroyed |-> r.destroyed,
     leaked |-> r.leaked, oob |-> r.oob, constructed |-> r.constructed,
     moved |-> r.moved, copied |-> r.copied, newblock |-> r.newblock]

\* No call is in progress: the caller has looked at what the last one did.
NoCall ==
    [op |-> "none", idx |-> 0, val |-> 0, arg |-> NoVec, pre |-> [data |-> <<>>, size |-> 0],
     out |-> "ok", fail |-> "none", ret |-> 0, destroyed |-> 0, leaked |-> 0, oob |-> FALSE,
     constructed |-> 0, moved |-> 0, copied |-> 0, newblock |-> FALSE]

Running == last.out # "crash"

\* --------------------------------------------------------------- PopBack
\* Mutant of PopBack: the size is decremented, the element is not destroyed.
PopBackMut(d, s) ==
    IF s > 0
    THEN Res(d, s - 1, "ok", "none", s - 1, 0, 1, FALSE)
    ELSE Res(d, s, "ok", "none", 0, 0, 0, FALSE)

\* if (size_ > 0) { destroy_at(end() - 1); --size_; }
PopBack(d, s) ==
    IF s > 0
    THEN Res([d EXCEPT ![s] = Raw], s - 1, "ok", "none", s - 1, 1, 0, FALSE)
    ELSE Res(d, s, "ok", "none", 0, 0, 0, FALSE)

\* ------------------------------------------------------------- NoRealloc
\* new (end()) T{std::move(data_[size_ - 1])}; g is what data_[size_ - 1]
\* reads when size_ is 0 (the index wraps around: outside the block).
MoveLastToEnd(t, d, s, g) ==
    IF s = 0 THEN [d EXCEPT ![1] = g]
    ELSE [d EXCEPT ![s + 1] = d[s], ![s] = MovedFrom(t, d[s])]

\* std::move_backward(begin() + index, end() - 1, end()) after j of its
\* assignments: the j-th move-assigns slot s - j to slot s - j + 1 (1-based).
RECURSIVE ShiftRight(_, _, _, _)
ShiftRight(t, d, s, j) ==
    IF j <= 0 THEN d
    ELSE LET p == ShiftRight(t, d, s, j - 1)
         IN [p EXCEPT ![s - j + 1] = p[s - j], ![s - j] = MovedFrom(t, p[s - j])]

\* The number of elements of [begin() + index, end() - 1).
ShiftCount(s, index) == s - 1 - index

\* Steps that can throw, in order: 1 the temporary, 2 the move construction
\* at end(), 3 .. 2+n the n assignments of move_backward, 3+n the assignment
\* of the temporary.  With index = size_ the range of move_backward is
\* reversed (and with size_ = 0 data_[size_ - 1] is outside the block):
\* undefined behaviour, ub is the outcome ("go": the loop runs zero times).
NoRealloc(t, d, s, index, v, f, ub, g) ==
    LET n == IF index < s THEN ShiftCount(s, index) ELSE 0
        undefined == index >= s
        d2 == MoveLastToEnd(t, d, s, g)
        done == IF f \in 3..(2 + n) THEN f - 3 ELSE n
        d3 == ShiftRight(t, d2, s, done)
        d4 == [d3 EXCEPT ![index + 1] = v]
        oob == s = 0
        lost == IF d[s + 1] # Raw THEN 1 ELSE 0
    IN  CASE ub = "crash" ->
               IF undefined /\ f = 0
               THEN Res(d, s, "crash", "none", index, 0, 0, oob) ELSE Invalid
          [] ub = "go" /\ f = 0 ->
               Constructed(Res(d4, s, "ok", "none", index, 0, lost, oob), 1)
          [] ub = "go" /\ f = 1 ->
               IF CtorThrows(t) THEN Res(d, s, "throw", "ctor", index, 0, 0, FALSE)
               ELSE Invalid
          [] ub = "go" /\ f = 2 ->
               IF MoveThrows(t) THEN Res(d, s, "throw", "move", index, 0, 0, oob)
               ELSE Invalid
          [] ub = "go" /\ f \in 3..(3 + n) ->
               IF MoveAssignThrows(t)
               THEN Constructed(Res(d3, s, "throw", "assign", index, 0, lost, oob), 1)
               ELSE Invalid
          [] OTHER -> Invalid

\* --------------------------------------------------------------- Realloc
\* Mutant of NewCapacity: room for one more element only.
NewCapacityMut(s) == s + 1

\* RawMemory<T> new_data{size_ == 0 ? 1 : size_ * 2};
NewCapacity(s) == IF s = 0 THEN 1 ELSE s * 2

\* std::destroy_n(begin(), size_ - index);
ReallocDestroyCount(s, index) == s - index

\* The k-th relocation of Realloc: the suffix [index, size_) goes first, to
\* new_data + index + 1, then the prefix [0, index) to new_data (1-based slots).
ReallocSrc(s, index, k) == IF k <= s - index THEN index + k ELSE k - (s - index)
ReallocDst(s, index, k) == IF k <= s - index THEN index + k + 1 ELSE k - (s - index)

\* The new block once the new element and all of [0, size_) are in it.
ReallocBlock(d, s, index, v) ==
    [j \in 1..NewCapacity(s) |->
        IF j = index + 1 THEN v
        ELSE IF \E k \in 1..s : ReallocDst(s, index, k) = j
             THEN d[ReallocSrc(s, index, CHOOSE k \in 1..s : ReallocDst(s, index, k) = j)]
             ELSE Raw]

\* Mutant of Relocated: the copying relocation moves from its sources.
RelocatedMut(t, d, s, index, k) ==
    [j \in 1..Len(d) |->
        IF \E i \in 1..k : ReallocSrc(s, index, i) = j THEN Default ELSE d[j]]

\* The old block after the first k relocations: moved-from where moved.
Relocated(t, d, s, index, k) ==
    IF UseMove(t)
    THEN [j \in 1..Len(d) |->
            IF \E i \in 1..k : ReallocSrc(s, index, i) = j THEN MovedFrom(t, d[j]) ELSE d[j]]
    ELSE d

DestroyN(d, first, n) == [j \in 1..Len(d) |-> IF j >= first /\ j < first + n THEN Raw ELSE d[j]]

\* Steps that can throw: 1 the allocation, 2 the construction of the new
\* element, 2+k the k-th relocation.  uninitialized_copy_n / _move_n destroy
\* what they constructed themselves; ~RawMemory then releases new_data.
Realloc(t, d, s, index, v, f) ==
    LET k == f - 2
        inSuffix == k <= s - index
        own == IF inSuffix THEN k - 1 ELSE k - 1 - (s - index)
        old == DestroyN(Relocated(t, d, s, index, s), 1, ReallocDestroyCount(s, index))
    IN  CASE f = 0 ->
               Swapped(Relocating(Constructed(
                   Res(ReallocBlock(d, s, index, v), s, "ok", "none", index,
                       ReallocDestroyCount(s, index), NumLive(old), FALSE), s + 1), t, s))
          [] f = 1 -> Res(d, s, "throw", "alloc", index, 0, 0, FALSE)
          [] f = 2 ->
               IF CtorThrows(t) THEN Res(d, s, "throw", "ctor", index, 0, 0, FALSE)
               ELSE Invalid
          [] f \in 3..(2 + s) ->
               IF RelocThrows(t)
               THEN Relocating(Constructed(
                        Res(Relocated(t, d, s, index, k - 1), s, "throw", RelocFail(t), index,
                            own, IF inSuffix THEN 1 ELSE 1 + (s - index), FALSE), k), t, k - 1)
               ELSE Invalid
          [] OTHER -> Invalid

\* --------------------------------------------------------------- Emplace
\* size_ < data_.Capacity() ? NoRealloc : Realloc; then size_++ and return
\* data_ + index.
EmplaceBody(t, d, s, index, v, f, ub, g) ==
    LET r == IF s < Len(d)
             THEN IF g = 0 \/ s = 0 THEN NoRealloc(t, d, s, index, v, f, ub, g) ELSE Invalid
             ELSE IF ub = "go" /\ g = 0 THEN Realloc(t, d, s, index, v, f) ELSE Invalid
    IN  IF r.valid /\ r.out = "ok" THEN [r EXCEPT !.size = s + 1] ELSE r

\* --------------------------------------------------------------- Reserve
\* Mutant of ReserveCapacity: one slot more than asked for.
ReserveCapacityMut(n) == n + 1

\* RawMemory<T> new_data(new_capacity);
ReserveCapacity(n) == n

\* Mutant of ReserveKeeps: a request for the present capacity reallocates.
ReserveKeepsMut(d, n) == n < Len(d)

\* if (new_capacity <= data_.Capacity()) return;
ReserveKeeps(d, n) == n <= Len(d)

\* Steps that can throw: 1 the allocation, 1+k the k-th relocation.
Reserve(t, d, s, n, f) ==
    LET nb == [j \in 1..ReserveCapacity(n) |-> IF j <= s THEN d[j] ELSE Raw]
        old == DestroyN(Relocated(t, d, s, 0, s), 1, s)
    IN  IF ReserveKeeps(d, n)
        THEN IF f = 0 THEN Res(d, s, "ok", "none", 0, 0, 0, FALSE) ELSE Invalid
        ELSE CASE f = 0 ->
                    Swapped(Relocating(Constructed(
                        Res(nb, s, "ok", "none", 0, s, NumLive(old), FALSE), s), t, s))
               [] f = 1 -> Res(d, s, "throw", "alloc", 0, 0, 0, FALSE)
               [] f \in 2..(1 + s) ->
                    IF RelocThrows(t)
                    THEN Relocating(Constructed(
                             Res(Relocated(t, d, s, 0, f - 2), s, "throw", RelocFail(t), 0,
                                 f - 2, 0, FALSE), f - 2), t, f - 2)
                    ELSE Invalid
               [] OTHER -> Invalid

\* ---------------------------------------------------------------- Resize
\* Mutant of ResizeSize: the size is not updated when the Vector shrinks.
ResizeSizeMut(s, n) == Max(s, n)

\* size_ = new_size;
ResizeSize(s, n) == n

\* Growing: Reserve(new_size), then uninitialized_value_construct_n, which
\* destroys what it constructed when a constructor throws.  Shrinking:
\* destroy_n(begin() + new_size, size_ - new_size).  Then size_ = new_size.

Resize(t, d, s, n, f) ==
    LET rsteps == IF n > Len(d) THEN 1 + s ELSE 0
        r0 == Reserve(t, d, s, n, 0)
        k == f - rsteps
        grown == [j \in 1..Len(r0.data) |-> IF j > s /\ j <= n THEN Default ELSE r0.data[j]]
        lost == Cardinality({j \in (s + 1)..n : r0.data[j] # Raw})
    IN  IF n > s
        THEN CASE f = 0 ->
                    [r0 EXCEPT !.data = grown, !.size = ResizeSize(s, n),
                               !.leaked = r0.leaked + lost,
                               !.constructed = r0.constructed + (n - s)]
               [] f \in 1..rsteps -> Reserve(t, d, s, n, f)
               [] f \in (rsteps + 1)..(rsteps + n - s) ->
                    IF CtorThrows(t)
                    THEN [r0 EXCEPT !.out = "throw", !.fail = "ctor",
                                    !.destroyed = r0.destroyed + k - 1,
                                    !.constructed = r0.constructed + k - 1]
                    ELSE Invalid
               [] OTHER -> Invalid
        ELSE IF f = 0
             THEN Res(DestroyN(d, n + 1, s - n), ResizeSize(s, n), "ok", "none", 0, s - n,
                      0, FALSE)
             ELSE Invalid

\* ----------------------------------------------------------------- Erase
\* Mutant of ShiftLeft: the elements after index are not moved down.
ShiftLeftMut(t, d, index, j) == d

\* std::move(data_ + index + 1, end(), data_ + index) after j of its
\* assignments: the j-th move-assigns slot index + j + 1 to slot index + j.
RECURSIVE ShiftLeft(_, _, _, _)
ShiftLeft(t, d, index, j) ==
    IF j <= 0 THEN d
    ELSE LET p == ShiftLeft(t, d, index, j - 1)
         IN [p EXCEPT ![index + j] = p[index + j + 1],
                      ![index + j + 1] = MovedFrom(t, p[index + j + 1])]

\* pos < cend(): shift, PopBack, return data_ + index; else PopBack, return
\* end().  Step k of the shift can throw.
Erase(t, d, s, index, f) ==
    LET n == s - 1 - index
        pop == PopBack(ShiftLeft(t, d, index, n), s)
        atEnd == PopBack(d, s)
    IN  IF index < s
        THEN CASE f = 0 -> [pop EXCEPT !.ret = index]
               [] f \in 1..n ->
                    IF MoveAssignThrows(t)
                    THEN Res(ShiftLeft(t, d, index, f - 1), s, "throw", "assign", index,
                             0, 0, FALSE)
                    ELSE Invalid
               [] OTHER -> Invalid
        ELSE IF f = 0 THEN [atEnd EXCEPT !.ret = atEnd.size] ELSE Invalid

\* ---------------------------------------------------------- constructors
\* explicit Vector(size_t size): data_(size), size_(size), then
\* uninitialized_value_construct_n.  Allocate(0) does not call operator new.
\* A constructor that throws leaves no object: valid results with out =
\* "throw" carry the empty block.
\* Mutant of UnwindCount: the algorithm leaves what it constructed.
UnwindCountMut(k) == 0

\* uninitialized_value_construct_n and uninitialized_copy_n: when the k-th
\* construction throws they destroy the k - 1 elements they constructed.
UnwindCount(k) == k - 1

\* The fresh block of n slots when the k-th construction has thrown and
\* the algorithm has cleaned up: what ~RawMemory then releases.
Unwound(n, k) ==
    DestroyN([j \in 1..n |-> IF j < k THEN Default ELSE Raw], 1, UnwindCount(k))

Construct(t, n, f) ==
    CASE f = 0 ->
           Constructed(Res([j \in 1..n |-> Default], n, "ok", "none", 0, 0, 0, FALSE), n)
      [] f = 1 -> IF n # 0 THEN Res(<<>>, 0, "throw", "alloc", 0, 0, 0, FALSE) ELSE Invalid
      [] f \in 2..(1 + n) ->
           IF CtorThrows(t)
           THEN Constructed(Res(<<>>, 0, "throw", "ctor", 0, UnwindCount(f - 1),
                                NumLive(Unwound(n, f - 1)), FALSE), f - 2)
           ELSE Invalid
      [] OTHER -> Invalid

\* Mutant of CopyCapacity: the copy has a slot to spare.
CopyCapacityMut(s) == s + 1

\* Vector(const Vector& other): data_(other.size_), size_(other.size_), then
\* uninitialized_copy_n(other.begin(), size_, begin()).
CopyCapacity(s) == s

CopyConstruct(t, d, s, f) ==
    CASE f = 0 ->
           Constructed(Res([j \in 1..CopyCapacity(s) |-> IF j <= s THEN d[j] ELSE Raw], s,
                           "ok", "none", 0, 0, 0, FALSE), s)
      [] f = 1 -> IF s # 0 THEN Res(<<>>, 0, "throw", "alloc", 0, 0, 0, FALSE) ELSE Invalid
      [] f \in 2..(1 + s) ->
           IF CopyThrows(t)
           THEN Constructed(Res(<<>>, 0, "throw", "copy", 0, UnwindCount(f - 1),
                                NumLive(Unwound(s, f - 1)), FALSE), f - 2)
           ELSE Invalid
      [] OTHER -> Invalid

\* ~Vector(): destroy_n(begin(), size_); then ~RawMemory releases the block.
Destroy(d, s) ==
    Res(<<>>, 0, "ok", "none", 0, s, NumLive(DestroyN(d, 1, s)), FALSE)

\* Mutant of CopyAssign: always copy and swap, also when the elements fit.
CopyAssignMut(t, d, s, od, os, f) ==
    LET c == CopyConstruct(t, od, os, f)
    IN  IF c.valid /\ c.out = "ok" THEN [c EXCEPT !.destroyed = s]
        ELSE IF c.valid THEN [c EXCEPT !.data = d, !.size = s] ELSE Invalid

\* Mutant of CopyAssign: the elements are destroyed before the copy is made.
CopyAssignClearsMut(t, d, s, od, os, f) ==
    LET c == CopyConstruct(t, od, os, f)
    IN  IF c.valid /\ c.out = "ok" THEN Swapped([c EXCEPT !.destroyed = s])
        ELSE IF c.valid THEN [c EXCEPT !.data = RawBlock(Len(d)), !.size = 0, !.destroyed = s]
        ELSE Invalid

\* ------------------------------------------------------- copy assignment
\* Mutant of CommonPrefix: the last common element is not assigned.
CommonPrefixMut(s, os) == Min(s, os) - 1

\* size_t min_size = std::min(size_, other.size_);
CommonPrefix(s, os) == Min(s, os)

\* other.size_ > data_.Capacity(): Vector copy(other); Swap(copy); ~copy.
\* Otherwise copy_n over the common prefix (step k can throw), then
\* destroy_n of the surplus or uninitialized_copy_n of the rest (step
\* min + k can throw), then size_ = other.size_.
CopyAssign(t, d, s, od, os, f) ==
    LET c == CopyConstruct(t, od, os, f)
        gone == Destroy(d, s)
        m == CommonPrefix(s, os)
        pre(k) == [j \in 1..Len(d) |-> IF j <= k THEN od[j] ELSE d[j]]
        shrunk == DestroyN(pre(m), os + 1, s - os)
        grown == [j \in 1..Len(d) |-> IF j > s /\ j <= os THEN od[j] ELSE pre(m)[j]]
        lost == Cardinality({j \in (s + 1)..os : d[j] # Raw})
    IN  IF os > Len(d)
        THEN IF c.valid /\ c.out = "ok"
             THEN Swapped([c EXCEPT !.destroyed = gone.destroyed, !.leaked = gone.leaked])
             ELSE IF c.valid THEN [c EXCEPT !.data = d, !.size = s] ELSE Invalid
        ELSE CASE f = 0 ->
                    IF os < s
                    THEN Res(shrunk, os, "ok", "none", 0, s - os, 0, FALSE)
                    ELSE Constructed(Res(grown, os, "ok", "none", 0, 0, lost, FALSE), os - s)
               [] f \in 1..m ->
                    IF CopyAssignThrows(t)
                    THEN Res(pre(f - 1), s, "throw", "assign", 0, 0, 0, FALSE)
                    ELSE Invalid
               [] f \in (m + 1)..os ->
                    IF CopyThrows(t) /\ os >= s
                    THEN Constructed(Res(pre(m), s, "throw", "copy", 0, f - m - 1, 0, FALSE),
                                     f - m - 1)
                    ELSE Invalid
               [] OTHER -> Invalid

\* ------------------------------------------------- the Vector's actions
Outcomes == {"go", "crash"}

\* A Vector another Vector operation can be given: any block of at most
\* MaxOther slots whose first size slots hold values.
OtherStates ==
    {[exists |-> TRUE, size |-> Len(q),
      data |-> [j \in 1..c |-> IF j <= Len(q) THEN q[j] ELSE Raw]] :
        <<c, q>> \in {x \in (0..MaxOther) \X UNION {[1..m -> Values] : m \in 0..MaxOther} :
                        Len(x[2]) <= x[1]}}

\* What an operation of the Vector leaves alone.
Frame == UNCHANGED <<hist, raw, heap, rlast>>

Idle == last.op = "none" /\ ~other.exists
Ready == alive /\ Idle

ApplyWith(op, idx, val, arg, r) ==
    /\ r.valid
    /\ data_' = r.data
    /\ size_' = r.size
    /\ last' = Call(op, idx, val, arg, data_, size_, r)

Apply(op, idx, val, r) == ApplyWith(op, idx, val, NoVec, r)

\* Vector(): no block, no element.
DefaultConstructOp ==
    /\ ~alive /\ Idle
    /\ alive' = TRUE
    /\ Apply("Vector", 0, 0, Res(<<>>, 0, "ok", "none", 0, 0, 0, FALSE))
    /\ UNCHANGED <<T, other>>
    /\ Frame

ConstructOp ==
    /\ ~alive /\ Idle
    /\ \E n \in 0..MaxSize, f \in 0..(MaxSize + 1) :
         LET r == Construct(T, n, f)
         IN  /\ f <= n + 1
             /\ Apply("VectorN", n, 0, r)
             /\ alive' = (r.out = "ok")
    /\ UNCHANGED <<T, other>>
    /\ Frame

DestroyOp ==
    /\ Ready
    /\ alive' = FALSE
    /\ Apply("~Vector", 0, 0, Destroy(data_, size_))
    /\ UNCHANGED <<T, other>>
    /\ Frame

\* The outcomes of Emplace at index: undefined behaviour on the NoRealloc
\* path at index = size_, and a read outside the block when size_ = 0.
UbOutcomes(index) == IF size_ < Capacity /\ index = size_ THEN Outcomes ELSE {"go"}
UbReads == IF size_ < Capacity /\ size_ = 0 THEN Garbage ELSE {0}

\* PushBack(const T&), PushBack(T&&) and EmplaceBack: Emplace(end(), ...).
EmplaceBack(lim, slim) ==
    /\ Ready
    /\ size_ < slim
    /\ size_ < Capacity \/ NewCapacity(size_) <= lim
    /\ \E v \in Values, f \in 0..(size_ + 3), ub \in UbOutcomes(size_), g \in UbReads :
         Apply("EmplaceBack", size_, v, EmplaceBody(T, data_, size_, size_, v, f, ub, g))
    /\ UNCHANGED <<T, alive, other>>

\* Insert(pos, const T&), Insert(pos, T&&) and Emplace.
Emplace(lim, slim) ==
    /\ Ready
    /\ size_ < slim
    /\ size_ < Capacity \/ NewCapacity(size_) <= lim
    /\ \E index \in 0..size_, v \in Values, f \in 0..(size_ + 3) :
         \E ub \in UbOutcomes(index), g \in UbReads :
            Apply("Emplace", index, v, EmplaceBody(T, data_, size_, index, v, f, ub, g))
    /\ UNCHANGED <<T, alive, other>>

PopBackCall ==
    /\ Ready
    /\ Apply("PopBack", 0, 0, PopBack(data_, size_))
    /\ UNCHANGED <<T, alive, other>>

EraseOp ==
    /\ Ready
    /\ \E index \in 0..size_, f \in 0..size_ :
         Apply("Erase", index, 0, Erase(T, data_, size_, index, f))
    /\ UNCHANGED <<T, alive, other>>
    /\ Frame

ReserveOp ==
    /\ Ready
    /\ \E n \in 0..MaxCap, f \in 0..(size_ + 1) :
         Apply("Reserve", n, 0, Reserve(T, data_, size_, n, f))
    /\ UNCHANGED <<T, alive, other>>
    /\ Frame

ResizeOp ==
    /\ Ready
    /\ \E n \in 0..MaxSize, f \in 0..(MaxSize + 1) :
         Apply("Resize", n, 0, Resize(T, data_, size_, n, f))
    /\ UNCHANGED <<T, alive, other>>
    /\ Frame

\* Vector other(*this);
CopyConstructOp ==
    /\ Ready
    /\ IsCopyConstructible(T)
    /\ \E f \in 0..(size_ + 1) :
         LET r == CopyConstruct(T, data_, size_, f)
         IN  /\ r.valid
             /\ last' = Call("VectorCopy", 0, 0, NoVec, data_, size_, r)
             /\ other' = IF r.out = "ok"
                         THEN [exists |-> TRUE, data |-> r.data, size |-> r.size]
                         ELSE NoVec
    /\ UNCHANGED <<T, alive, data_, size_>>
    /\ Frame

\* *this = o;  (this != &other)
CopyAssignOp ==
    /\ Ready
    /\ IsCopyConstructible(T)
    /\ \E o \in OtherStates, f \in 0..(MaxOther + 1) :
         /\ ApplyWith("CopyAssign", 0, 0, o, CopyAssign(T, data_, size_, o.data, o.size, f))
         /\ other' = o
    /\ UNCHANGED <<T, alive>>
    /\ Frame

\* *this = *this;  (this == &other: nothing is done)
SelfAssignOp ==
    /\ Ready
    /\ Apply("SelfAssign", 0, 0, Res(data_, size_, "ok", "none", 0, 0, 0, FALSE))
    /\ UNCHANGED <<T, alive, other>>
    /\ Frame

\* Swap(other): data_.Swap(other.data_); std::swap(size_, other.size_).
Swap(d, s, o) == Swapped(Res(o.data, o.size, "ok", "none", 0, 0, 0, FALSE))

\* *this = std::move(o) and o = std::move(*this): Swap.
MoveAssignOp ==
    /\ Ready
    /\ \E o \in OtherStates : ApplyWith("MoveAssign", 0, 0, o, Swap(data_, size_, o))
    /\ other' = [exists |-> TRUE, data |-> data_, size |-> size_]
    /\ UNCHANGED <<T, alive>>
    /\ Frame

SwapOp ==
    /\ Ready
    /\ \E o \in OtherStates : ApplyWith("Swap", 0, 0, o, Swap(data_, size_, o))
    /\ other' = [exists |-> TRUE, data |-> data_, size |-> size_]
    /\ UNCHANGED <<T, alive>>
    /\ Frame

\* Vector other(std::move(*this)): other starts empty and swaps.
MoveConstructOp ==
    /\ Ready
    /\ Apply("MovedFrom", 0, 0, Swap(data_, size_, [data |-> <<>>, size |-> 0]))
    /\ other' = [exists |-> TRUE, data |-> data_, size |-> size_]
    /\ UNCHANGED <<T, alive>>
    /\ Frame

\* The other Vector goes out of scope.
DropOtherOp ==
    /\ other.exists
    /\ other' = NoVec
    /\ last' = Call("~Other", 0, 0, NoVec, other.data, other.size,
                    Destroy(other.data, other.size))
    /\ UNCHANGED <<T, alive, data_, size_>>
    /\ Frame

\* The call has returned (or thrown) and the caller goes on; after a crash
\* nothing goes on.
Return ==
    /\ last.op # "none" /\ Running /\ ~other.exists
    /\ last' = NoCall
    /\ UNCHANGED <<T, alive, data_, size_, other>>

\* ------------------------------------------------------------ RawMemory
\* An address is a number, 0 is nullptr.  A block of the heap is "free",
\* "used" (handed out by operator new and not yet deleted) or "twice"
\* (deleted while free: released twice).
Objects == {"a", "b"}
NoRawCall == [op |-> "none", dst |-> "a", src |-> "a", pre |-> [x \in Objects |-> NoRaw],
              out |-> "ok"]
RawCall(op, dst, src, out) == [op |-> op, dst |-> dst, src |-> src, pre |-> raw, out |-> out]
RawIdle == rlast.op = "none"

InitRaw ==
    /\ raw = [x \in Objects |-> NoRaw]
    /\ heap = [a \in 1..MaxAddr |-> "free"]
    /\ rlast = NoRawCall

\* static void Deallocate(T* buf): operator delete(buf); deleting nullptr
\* does nothing.
Deallocate(h, buf) ==
    IF buf = 0 THEN h
    ELSE [h EXCEPT ![buf] = IF h[buf] = "used" THEN "free" ELSE "twice"]

\* RawMemory() = default;
RawDefaultOp ==
    /\ RawIdle
    /\ \E x \in Objects :
         /\ ~raw[x].alive
         /\ raw' = [raw EXCEPT ![x] = [alive |-> TRUE, buffer |-> 0, capacity |-> 0]]
         /\ rlast' = RawCall("RawMemory", x, x, "ok")
    /\ UNCHANGED heap
    /\ UNCHANGED <<vecVars, hist>>

\* explicit RawMemory(size_t capacity): buffer_(Allocate(capacity)),
\* capacity_(capacity); Allocate(0) is nullptr, otherwise operator new hands
\* out a free block.
RawConstructOp ==
    /\ RawIdle
    /\ \E x \in Objects, n \in 0..MaxRawCap :
         /\ ~raw[x].alive
         /\ \E addr \in 0..MaxAddr :
              /\ IF n = 0 THEN addr = 0 ELSE addr # 0 /\ heap[addr] = "free"
              /\ raw' = [raw EXCEPT ![x] = [alive |-> TRUE, buffer |-> addr, capacity |-> n]]
              /\ heap' = IF addr = 0 THEN heap ELSE [heap EXCEPT ![addr] = "used"]
         /\ rlast' = RawCall("RawMemoryN", x, x, "ok")
    /\ UNCHANGED <<vecVars, hist>>

\* operator new throws std::bad_alloc: no object.
RawConstructFailsOp ==
    /\ RawIdle
    /\ \E x \in Objects :
         /\ ~raw[x].alive
         /\ rlast' = RawCall("RawMemoryN", x, x, "throw")
    /\ UNCHANGED <<raw, heap>>
    /\ UNCHANGED <<vecVars, hist>>

\* RawMemory(RawMemory&& other): takes buffer_ and capacity_, other gets
\* nullptr and 0.
RawMoveConstructOp ==
    /\ RawIdle
    /\ \E x \in Objects, y \in Objects :
         /\ x # y /\ ~raw[x].alive /\ raw[y].alive
         /\ raw' = [raw EXCEPT ![x] = raw[y],
                               ![y] = [alive |-> TRUE, buffer |-> 0, capacity |-> 0]]
         /\ rlast' = RawCall("RawMove", x, y, "ok")
    /\ UNCHANGED heap
    /\ UNCHANGED <<vecVars, hist>>

\* void Swap(RawMemory& other)
RawSwap(r, x, y) == [r EXCEPT ![x] = r[y], ![y] = r[x]]

RawSwapOp ==
    /\ RawIdle
    /\ \E x \in Objects, y \in Objects :
         /\ raw[x].alive /\ raw[y].alive
         /\ raw' = RawSwap(raw, x, y)
         /\ rlast' = RawCall("RawSwap", x, y, "ok")
    /\ UNCHANGED heap
    /\ UNCHANGED <<vecVars, hist>>

\* operator=(RawMemory&& other): if (this != &other) { Swap(other);
\* Deallocate(other.buffer_); other.capacity_ = 0; }
RawMoveAssign(r, x, y) ==
    IF x = y THEN r
    ELSE LET sw == RawSwap(r, x, y)
         IN  [sw EXCEPT ![y].capacity = 0]

RawMoveAssignOp ==
    /\ RawIdle
    /\ \E x \in Objects, y \in Objects :
         /\ raw[x].alive /\ raw[y].alive
         /\ raw' = RawMoveAssign(raw, x, y)
         /\ heap' = IF x = y THEN heap ELSE Deallocate(heap, raw[x].buffer)
         /\ rlast' = RawCall("RawMoveAssign", x, y, "ok")
    /\ UNCHANGED <<vecVars, hist>>

\* ~RawMemory(): Deallocate(buffer_).  Deleting a block that is not in use
\* is undefined: the allocator aborts, or goes on.
RawDestroyOp ==
    /\ RawIdle
    /\ \E x \in Objects, out \in {"ok", "crash"} :
         /\ raw[x].alive
         /\ out = "crash" => raw[x].buffer # 0 /\ heap[raw[x].buffer] # "used"
         /\ raw' = [raw EXCEPT ![x] = NoRaw]
         /\ heap' = Deallocate(heap, raw[x].buffer)
         /\ rlast' = RawCall("~RawMemory", x, x, out)
    /\ UNCHANGED <<vecVars, hist>>

RawReturnOp ==
    /\ rlast.op # "none" /\ rlast.out # "crash"
    /\ rlast' = NoRawCall
    /\ UNCHANGED <<raw, heap>>
    /\ UNCHANGED <<vecVars, hist>>

\* ------------------------------------------------------- specifications
InitVector ==
    /\ T \in Types
    /\ alive = TRUE
    /\ data_ = <<>>
    /\ size_ = 0
    /\ other = NoVec
    /\ last = Call("Vector", 0, 0, NoVec, <<>>, 0, Res(<<>>, 0, "ok", "none", 0, 0, 0, FALSE))

Init ==
    /\ InitVector
    /\ hist = NoHist
    /\ InitRaw

EmplaceBackOp == EmplaceBack(MaxCap, MaxSize) /\ Frame
EmplaceOp == Emplace(MaxCap, MaxSize) /\ Frame
PopBackOp == PopBackCall /\ Frame
ReturnOp == Return /\ Frame

Next ==
    \/ DefaultConstructOp
    \/ ConstructOp
    \/ DestroyOp
    \/ EmplaceBackOp
    \/ EmplaceOp
    \/ PopBackOp
    \/ EraseOp
    \/ ReserveOp
    \/ ResizeOp
    \/ CopyConstructOp
    \/ CopyAssignOp
    \/ SelfAssignOp
    \/ MoveAssignOp
    \/ SwapOp
    \/ MoveConstructOp
    \/ DropOtherOp
    \/ ReturnOp

Spec == Init /\ [][Next]_vars

\* Pushes and pops on a default-constructed Vector, with what should be in
\* it: the values pushed and not yet popped, and, until the first pop, the
\* capacity after each push.
InitPush ==
    /\ InitVector
    /\ InitRaw
    /\ hist = [NoHist EXCEPT !.on = TRUE]

PushStep ==
    /\ EmplaceBack(MaxPushCap, MaxPush)
    /\ hist' = CASE last'.out = "ok" ->
                      [hist EXCEPT !.pushed = Append(@, last'.val),
                                   !.caps = IF hist.popped THEN @ ELSE Append(@, Len(data_'))]
                 [] last'.out = "throw" -> NoHist
                 [] OTHER -> hist
    /\ UNCHANGED rawVars

PopStep ==
    /\ size_ > 0
    /\ PopBackCall
    /\ hist' = [hist EXCEPT !.pushed = SubSeq(@, 1, Len(@) - 1), !.popped = TRUE,
                            !.caps = <<>>]
    /\ UNCHANGED rawVars

PushReturn == Return /\ Frame

PushNext == PushStep \/ PopStep \/ PushReturn

SpecPush == InitPush /\ [][PushNext]_vars

\* Pushes and inserts on a default-constructed Vector, with the capacity
\* after each of them.
GrowPush ==
    /\ EmplaceBack(MaxPushCap, MaxPush)
    /\ hist' = IF last'.out = "ok" THEN [hist EXCEPT !.caps = Append(@, Len(data_'))] ELSE hist
    /\ UNCHANGED rawVars

GrowInsert ==
    /\ Emplace(MaxPushCap, MaxPush)
    /\ hist' = IF last'.out = "ok" THEN [hist EXCEPT !.caps = Append(@, Len(data_'))] ELSE hist
    /\ UNCHANGED rawVars

GrowReturn == Return /\ Frame

GrowNext == GrowPush \/ GrowInsert \/ GrowReturn

SpecGrow == InitPush /\ [][GrowNext]_vars

\* Two RawMemory objects and the heap.
RawNext ==
    \/ RawDefaultOp
    \/ RawConstructOp
    \/ RawConstructFailsOp
    \/ RawMoveConstructOp
    \/ RawSwapOp
    \/ RawMoveAssignOp
    \/ RawDestroyOp
    \/ RawReturnOp

InitRawOnly ==
    /\ InitVector /\ T = "Int"
    /\ hist = NoHist
    /\ InitRaw

SpecRaw == InitRawOnly /\ [][RawNext]_vars

\* ================================================================ claims
Returned == last.op # "none" /\ last.out = "ok"
PreCap == Len(last.pre.data)
PreSize == last.pre.size
IsInsert == last.op \in {"Emplace", "EmplaceBack"}

\* [0, s) of d holds elements and [s, capacity) does not.
SlotsOk(d, s) ==
    /\ s <= Len(d)
    /\ \A k \in 1..Len(d) : (k <= s) <=> (d[k] # Raw)

\* The behaviour of the call is defined by the language: not an Emplace at
\* end() with spare capacity (reversed range, read before the block).
DefinedCall == ~(IsInsert /\ PreSize < PreCap /\ last.idx = PreSize)

\* C1: after any run of PushBack/EmplaceBack and PopBack calls from an empty
\* Vector, Size() is the number of pushes minus the number of pops and the
\* elements are the values pushed and not popped, in the order pushed.
C1_PushPopContents ==
    (hist.on /\ last.out # "crash") =>
        /\ size_ = Len(hist.pushed)
        /\ \A k \in 1..Len(hist.pushed) : k <= Len(data_) /\ data_[k] = hist.pushed[k]

\* C2: no operation releases or overwrites storage that still holds a live
\* element: every element is destroyed before its block is released.
C2_DestroyedBeforeRelease == last.leaked = 0

\* C3: Emplace of v at index i into S elements leaves S + 1 elements, v at
\* i, the old [0, i) before it and the old [i, S) after it, and returns i.
C3_InsertResult ==
    (last.op = "Emplace" /\ last.out = "ok") =>
        /\ size_ = PreSize + 1
        /\ last.ret = last.idx
        /\ data_[last.idx + 1] = last.val
        /\ \A k \in 1..last.idx : data_[k] = last.pre.data[k]
        /\ \A k \in (last.idx + 1)..PreSize : data_[k + 1] = last.pre.data[k]

\* C4: Erase at index i < S leaves S - 1 elements, the old ones without
\* element i and in order, the same capacity, has destroyed exactly one
\* element and returns i (which is end() when i was the last index).
C4_EraseResult ==
    (last.op = "Erase" /\ last.out = "ok" /\ last.idx < PreSize) =>
        /\ size_ = PreSize - 1
        /\ \A k \in 1..last.idx : data_[k] = last.pre.data[k]
        /\ \A k \in (last.idx + 1)..(PreSize - 1) : data_[k] = last.pre.data[k + 1]
        /\ Len(data_) = PreCap
        /\ last.destroyed = 1
        /\ last.ret = last.idx
        /\ (last.idx = PreSize - 1) => (last.ret = size_)

C4_Witness ==
    /\ last.op = "Erase" /\ last.out = "ok"
    /\ PreSize = 3 /\ last.idx = 0
    /\ last.pre.data[2] # last.pre.data[3]
    /\ T = "Str"

\* C5: a call with defined behaviour on a Vector whose slots [0, size) hold
\* elements and whose slots [size, capacity) do not leaves such a Vector,
\* also when it throws.
C5_SlotsInvariant ==
    (alive /\ last.op \notin {"none", "~Other"} /\ last.out # "crash" /\ DefinedCall
           /\ SlotsOk(last.pre.data, PreSize))
        => SlotsOk(data_, size_)

\* C6: a growing Reserve, or an Emplace/EmplaceBack with size = capacity,
\* that throws because the allocation, the new element's constructor or a
\* relocating copy failed leaves the size, the capacity and the elements
\* as they were.
FreshBlockCall ==
    \/ last.op = "Reserve" /\ last.idx > PreCap
    \/ IsInsert /\ PreSize = PreCap

C6_StrongGuarantee ==
    (FreshBlockCall /\ last.out = "throw" /\ last.fail \in {"alloc", "ctor", "copy"}) =>
        /\ size_ = PreSize
        /\ data_ = last.pre.data
        /\ \A k \in 1..size_ : data_[k] # Raw

C6_Witness ==
    /\ last.op = "Emplace" /\ last.out = "throw" /\ last.fail = "copy"
    /\ PreSize = 2 /\ PreCap = 2 /\ last.idx = 1
    /\ last.leaked = 2

\* C7: after a = std::move(b) on two RawMemory objects, a has b's block and
\* capacity and b has no block and capacity 0; and no block is ever
\* released twice.
C7_RawMoveAssign ==
    /\ (rlast.op = "RawMoveAssign" /\ rlast.dst # rlast.src) =>
            /\ raw[rlast.dst].buffer = rlast.pre[rlast.src].buffer
            /\ raw[rlast.dst].capacity = rlast.pre[rlast.src].capacity
            /\ raw[rlast.src].buffer = 0
            /\ raw[rlast.src].capacity = 0
    /\ \A a \in 1..MaxAddr : heap[a] # "twice"

\* C8: an Emplace or EmplaceBack with size = capacity makes the capacity
\* max(1, 2 x capacity), one with size < capacity leaves it; five pushes
\* onto an empty Vector give the capacities 1, 2, 4, 4, 8 and the sizes 1..5.
PushCapacities == <<1, 2, 4, 4, 8>>

C8_Growth ==
    /\ (IsInsert /\ last.out = "ok") =>
            Len(data_) = IF PreSize = PreCap THEN Max(1, 2 * PreCap) ELSE PreCap
    /\ last.out # "crash" => Len(hist.caps) = size_
    /\ \A k \in 1..Min(Len(hist.caps), Len(PushCapacities)) : hist.caps[k] = PushCapacities[k]

C8_Witness ==
    /\ last.op = "EmplaceBack" /\ last.out = "ok"
    /\ hist.caps = PushCapacities
    /\ size_ = 5

\* C9: no operation on a Vector other than being moved from, move
\* assignment and Swap makes its capacity smaller.
KeepsCapacity ==
    {"EmplaceBack", "Emplace", "PopBack", "Erase", "Reserve", "Resize", "CopyAssign",
     "SelfAssign", "VectorCopy"}

C9_CapacityNeverShrinks ==
    (last.op \in KeepsCapacity) => Len(data_) >= PreCap

C9_Witness ==
    /\ last.op = "CopyAssign" /\ last.out = "ok"
    /\ last.arg.size < PreSize /\ Len(last.arg.data) < PreCap
    /\ PreCap = MaxCap

\* C10: Reserve(n) with n > Capacity() makes the capacity n and leaves the
\* size and the elements.
C10_ReserveGrows ==
    (last.op = "Reserve" /\ last.out = "ok" /\ last.idx > PreCap) =>
        /\ Len(data_) = last.idx
        /\ size_ = PreSize
        /\ \A k \in 1..PreSize : data_[k] = last.pre.data[k]

C10_Witness ==
    /\ last.op = "Reserve" /\ last.out = "ok"
    /\ PreCap = 2 /\ PreSize = 2 /\ last.idx = 4
    /\ last.pre.data[1] # last.pre.data[2]
    /\ T = "Str"

\* C11: Reserve(n) with n <= Capacity() returns having changed nothing: the
\* block is the same one, the capacity, the size and the slots are as they
\* were, and no element was constructed, moved, copied or destroyed.
C11_ReserveKeeps ==
    (last.op = "Reserve" /\ last.idx <= PreCap) =>
        /\ last.out = "ok"
        /\ ~last.newblock
        /\ data_ = last.pre.data
        /\ size_ = PreSize
        /\ last.constructed = 0 /\ last.moved = 0 /\ last.copied = 0 /\ last.destroyed = 0

C11_Witness ==
    /\ last.op = "Reserve" /\ last.out = "ok"
    /\ last.idx = PreCap /\ PreCap = 2 /\ PreSize = 2
    /\ T = "Thr"

\* C12: the copy Y of a Vector X has X's size, a capacity equal to X's size
\* (also when X has spare capacity) and X's elements index by index, and X
\* keeps its block, size and elements.
C12_CopyConstruct ==
    (last.op = "VectorCopy" /\ last.out = "ok") =>
        /\ other.exists
        /\ other.size = PreSize
        /\ Len(other.data) = PreSize
        /\ \A k \in 1..PreSize : other.data[k] = last.pre.data[k]
        /\ data_ = last.pre.data /\ size_ = PreSize

C12_Witness ==
    /\ last.op = "VectorCopy" /\ last.out = "ok"
    /\ PreSize = 2 /\ PreCap = 4
    /\ last.pre.data[1] # last.pre.data[2]
    /\ other.exists

\* C13: a copy assignment a = b with b.Size() <= a.Capacity() that returns
\* has kept a's block and capacity, has made a's size b's and a's elements
\* b's index by index, has left b as it was, has destroyed max(0, old size
\* - b's size) elements and constructed max(0, b's size - old size).
C13_CopyAssignInPlace ==
    (last.op = "CopyAssign" /\ last.out = "ok" /\ last.arg.size <= PreCap) =>
        /\ ~last.newblock
        /\ Len(data_) = PreCap
        /\ size_ = last.arg.size
        /\ \A k \in 1..last.arg.size : data_[k] = last.arg.data[k]
        /\ other = last.arg
        /\ last.destroyed = Max(0, PreSize - last.arg.size)
        /\ last.constructed = Max(0, last.arg.size - PreSize)

C13_Witness ==
    /\ last.op = "CopyAssign" /\ last.out = "ok"
    /\ PreSize = 1 /\ last.arg.size = 2 /\ PreCap = 2
    /\ last.pre.data[1] # last.arg.data[1]
    /\ last.constructed = 1

\* C14: a copy assignment a = b with b.Size() > a.Capacity() returns or
\* throws; when it returns a has b's size, a capacity of b's size and b's
\* elements; when it throws a has the block, size and elements it had.
C14_CopyAssignGrows ==
    (last.op = "CopyAssign" /\ last.arg.size > PreCap) =>
        /\ last.out \in {"ok", "throw"}
        /\ last.out = "ok" =>
              /\ size_ = last.arg.size
              /\ Len(data_) = last.arg.size
              /\ \A k \in 1..last.arg.size : data_[k] = last.arg.data[k]
        /\ last.out = "throw" =>
              /\ ~last.newblock
              /\ data_ = last.pre.data
              /\ size_ = PreSize

C14_Witness ==
    /\ last.op = "CopyAssign" /\ last.out = "throw" /\ last.fail = "copy"
    /\ PreSize = 1 /\ PreCap = 1 /\ last.arg.size = 2
    /\ last.constructed = 1

\* C15: a call that relocates the elements to a fresh block (a growing
\* Reserve or Resize, an Emplace/EmplaceBack with size = capacity) moves
\* them and copies none when T's move constructor cannot throw or T cannot
\* be copied, and otherwise copies them and moves none; a call that returns
\* has relocated every element.
GrowingCall ==
    \/ FreshBlockCall
    \/ last.op = "Resize" /\ last.idx > PreCap

C15_MoveOrCopy ==
    GrowingCall =>
        IF IsNothrowMoveConstructible(T) \/ ~IsCopyConstructible(T)
        THEN last.copied = 0 /\ (last.out = "ok" => last.moved = PreSize)
        ELSE last.moved = 0 /\ (last.out = "ok" => last.copied = PreSize)

C15_Witness ==
    /\ last.op = "Emplace" /\ last.out = "ok"
    /\ PreSize = 2 /\ PreCap = 2 /\ last.idx = 1
    /\ T = "Mov" /\ last.moved = 2

\* C16: Resize(n) on S elements in a block of C slots that returns leaves
\* size n and capacity max(C, n); the first min(S, n) elements keep their
\* values; for n > S the elements S .. n-1 are value-initialized; for n < S
\* exactly the elements n .. S-1 are destroyed; Resize(S) changes nothing.
C16_Resize ==
    (last.op = "Resize" /\ last.out = "ok") =>
        /\ size_ = last.idx
        /\ Len(data_) = Max(PreCap, last.idx)
        /\ \A k \in 1..Min(PreSize, last.idx) : data_[k] = last.pre.data[k]
        /\ \A k \in (PreSize + 1)..last.idx : data_[k] = Default
        /\ last.idx < PreSize =>
              /\ last.destroyed = PreSize - last.idx
              /\ \A k \in (last.idx + 1)..PreSize : data_[k] = Raw
              /\ last.constructed = 0
        /\ last.idx = PreSize =>
              /\ data_ = last.pre.data
              /\ ~last.newblock
              /\ last.destroyed = 0 /\ last.constructed = 0

C16_Witness ==
    /\ last.op = "Resize" /\ last.out = "ok"
    /\ PreSize = 3 /\ last.idx = 1
    /\ last.pre.data[1] # Default
    /\ last.destroyed = 2

\* C17: when the k-th element construction of Vector(size) or of the copy
\* constructor throws, the k - 1 elements constructed in the call have been
\* destroyed, the block is released holding no element, and no Vector has
\* come to exist.
C17_ConstructorUnwinds ==
    (last.op \in {"VectorN", "VectorCopy"} /\ last.out = "throw"
           /\ last.fail \in {"ctor", "copy"}) =>
        /\ last.destroyed = last.constructed
        /\ last.leaked = 0
        /\ last.op = "VectorN" => (~alive /\ data_ = <<>> /\ size_ = 0)
        /\ last.op = "VectorCopy" => ~other.exists

C17_Witness ==
    /\ last.op = "VectorCopy" /\ last.out = "throw" /\ last.fail = "copy"
    /\ PreSize = 3
    /\ last.constructed = 2 /\ last.destroyed = 2

\* C18: no operation indexes the block outside [0, capacity) or reads a
\* slot that holds no element, also not an Emplace or EmplaceBack on a
\* Vector with size 0 and capacity > 0.
C18_InBounds == last.op # "none" => ~last.oob

\* C19: an Emplace or EmplaceBack at index p with size < capacity that
\* returns or throws leaves every element at an index < p with its value,
\* also at p = size.
C19_PrefixUntouched ==
    (IsInsert /\ PreSize < PreCap /\ last.out \in {"ok", "throw"}) =>
        \A k \in 1..last.idx : data_[k] = last.pre.data[k]

\* C20: when a relocation throws in an Emplace or EmplaceBack with size =
\* capacity, every element constructed in the new block (the new one and
\* those already relocated) is destroyed before the new block is released.
C20_NewBlockUnwinds ==
    (IsInsert /\ PreSize = PreCap /\ last.out = "throw" /\ last.fail \in {"copy", "move"}) =>
        last.leaked = 0

\* C21: Erase(end()) does what PopBack does and returns the new end(): on a
\* Vector with elements the last one is destroyed, the size goes down by
\* one and the other slots and the capacity stay; on an empty Vector
\* PopBack and Erase(end()) leave size 0, the capacity and the slots and
\* destroy nothing.
IsPopLike ==
    \/ last.op = "PopBack"
    \/ last.op = "Erase" /\ last.idx = PreSize

C21_EraseEndPops ==
    IsPopLike =>
        /\ last.out = "ok"
        /\ Len(data_) = PreCap /\ ~last.newblock
        /\ last.constructed = 0
        /\ IF PreSize > 0
           THEN /\ size_ = PreSize - 1
                /\ last.destroyed = 1
                /\ data_[PreSize] = Raw
                /\ \A k \in 1..PreCap : k # PreSize => data_[k] = last.pre.data[k]
           ELSE /\ size_ = 0
                /\ last.destroyed = 0
                /\ data_ = last.pre.data
        /\ last.op = "Erase" => last.ret = size_

C21_Witness ==
    /\ last.op = "Erase" /\ last.out = "ok"
    /\ PreSize = 2 /\ last.idx = 2 /\ PreCap = 4
    /\ last.pre.data[1] # last.pre.data[2]
    /\ T = "Str"

====
